---------------------------- MODULE Spec2Model ----------------------------
(***************************************************************************)
(* A model of the Graphics wrapper of Espruino                             *)
(* (src/libs/graphics/jswrap_graphics.c): the surface descriptor gfx.data  *)
(* that graphicsGetFromVar/graphicsSetVar load from and store to the       *)
(* Graphics object, the custom-font properties kept on that object, and    *)
(* the public operations, each as one action.                              *)
(*                                                                         *)
(* unsigned int values (colours, image samples) are 32-bit words written   *)
(* as four bytes, most significant first, so that no value leaves the      *)
(* range of the model checker's integers.                                  *)
(***************************************************************************)
EXTENDS Integers, Sequences, FiniteSets, TLC

VARIABLES
  build,         \* what the compiler fixes: signedness of char, width of long
  gfx,           \* the stored gfx.data of the Graphics object
  font,          \* the custom-font children of the Graphics object
  call,          \* the public operation called last (or about to be called)
  prev,          \* the public operation called before that one
  lastRotation,  \* the rotation argument of the last setRotation call
  out,           \* what the last call returned, drew and reported
  done           \* whether the call drawn at Init has been made

vars == <<build, gfx, font, call, prev, lastRotation, out, done>>

----------------------------------------------------------------------------
\* Integer helpers

RECURSIVE Pow2(_)
Pow2(n) == IF n = 0 THEN 1 ELSE 2 * Pow2(n - 1)

\* (short)x for an int x
Short(x) == ((x + 32768) % 65536) - 32768

\* (unsigned char)c for a char or int c
UChar(c) == c % 256

Min(a, b) == IF a < b THEN a ELSE b

\* all sequences over S of length 0..n
RECURSIVE SeqsUpTo(_, _)
SeqsUpTo(S, n) ==
  IF n = 0 THEN {<<>>}
  ELSE LET shorter == SeqsUpTo(S, n - 1)
       IN  shorter \cup {Append(s, e) : s \in {t \in shorter : Len(t) = n - 1}, e \in S}

\* 32-bit words as four bytes, most significant first
Word(b3, b2, b1, b0) == <<b3, b2, b1, b0>>
WordZero == Word(0, 0, 0, 0)
WordOnes == Word(255, 255, 255, 255)
\* (unsigned int)n for 0 <= n < 2^31
WordOf(n) == Word((n \div 16777216) % 256, (n \div 65536) % 256, (n \div 256) % 256, n % 256)

----------------------------------------------------------------------------
\* The surface

NoCall == [name |-> "none"]
NoOut == [ret |-> 0, pixels |-> <<>>, lines |-> <<>>, fills |-> <<>>, glyphs |-> <<>>,
          samples |-> <<>>, read |-> 0, report |-> "none"]
NoFont == [set |-> FALSE]

JSGRAPHICS_FONTSIZE_4X6 == -1
JSGRAPHICS_FONTSIZE_CUSTOM == -2

TransformFlags == {"SWAP_XY", "INVERT_X", "INVERT_Y"}

isValidBPP(bpp) == bpp \in {1, 2, 4, 8, 16, 24, 32}

\* graphicsStructInit: the descriptor before the creator fills in the size
graphicsStructInit ==
  [width |-> 0, height |-> 0, bpp |-> 0, flags |-> {},
   fgColor |-> WordOnes, bgColor |-> WordZero,
   cursorX |-> 0, cursorY |-> 0, fontSize |-> JSGRAPHICS_FONTSIZE_4X6]

\* Graphics.createArrayBuffer(width, height, bpp, {zigzag, vertical_byte})
createArrayBuffer(width, height, bpp, zigzag, vertical_byte) ==
  LET f1 == IF zigzag THEN {"ARRAYBUFFER_ZIGZAG"} ELSE {}
      f2 == IF vertical_byte /\ bpp = 1 THEN f1 \cup {"ARRAYBUFFER_VERTICAL_BYTE"} ELSE f1
  IN  [graphicsStructInit EXCEPT !.width = width, !.height = height, !.bpp = bpp, !.flags = f2]

CreateOK(width, height, bpp) ==
  /\ ~(width <= 0 \/ height <= 0 \/ width > 1023 \/ height > 1023)
  /\ isValidBPP(bpp)

Builds == [charSigned : BOOLEAN, longBits : {32, 64}]

----------------------------------------------------------------------------
\* setRotation, getWidth, getHeight

\* gfx.data.flags &= ~(SWAP_XY | INVERT_X | INVERT_Y)
ClearTransformKeep(flags) == flags
ClearTransform(flags) == flags \ TransformFlags

\* the switch on rotation
RotationFlags(flags, rotation) ==
  CASE rotation = 0 -> flags
    [] rotation = 1 -> flags \cup {"SWAP_XY", "INVERT_X"}
    [] rotation = 2 -> flags \cup {"INVERT_X", "INVERT_Y"}
    [] rotation = 3 -> flags \cup {"SWAP_XY", "INVERT_Y"}
    [] OTHER -> flags

\* flags ^= bit
Toggle(flags, bit) == IF bit \in flags THEN flags \ {bit} ELSE flags \cup {bit}

ReflectAlwaysX(flags, reflect) == IF reflect THEN Toggle(flags, "INVERT_X") ELSE flags
Reflect(flags, reflect) ==
  IF reflect
  THEN IF "SWAP_XY" \in flags THEN Toggle(flags, "INVERT_Y") ELSE Toggle(flags, "INVERT_X")
  ELSE flags

jswrap_graphics_setRotation(rotation, reflect) ==
  /\ gfx' = [gfx EXCEPT !.flags = Reflect(RotationFlags(ClearTransform(gfx.flags), rotation), reflect)]
  /\ out' = NoOut
  /\ lastRotation' = rotation
  /\ UNCHANGED <<build, font>>

WidthOrHeightNoSwap(g, height) == IF height THEN g.height ELSE g.width
WidthOrHeight(g, height) ==
  LET h == IF "SWAP_XY" \in g.flags THEN ~height ELSE height
  IN  IF h THEN g.height ELSE g.width

jswrap_graphics_getWidthOrHeight(height) ==
  /\ out' = [NoOut EXCEPT !.ret = WidthOrHeight(gfx, height)]
  /\ UNCHANGED <<build, gfx, font, lastRotation>>

----------------------------------------------------------------------------
\* A session of rotation calls on a surface made by createArrayBuffer

MaxSide == 3
Rotations == -1 .. 4

InitRotation ==
  /\ build \in Builds
  /\ \E w \in 1 .. MaxSide, h \in 1 .. MaxSide, bpp \in {1, 16}, z \in BOOLEAN, v \in BOOLEAN :
       /\ CreateOK(w, h, bpp)
       /\ gfx = createArrayBuffer(w, h, bpp, z, v)
  /\ font = NoFont
  /\ call = NoCall
  /\ prev = NoCall
  /\ lastRotation = 0
  /\ out = NoOut
  /\ done = FALSE

CallSetRotation ==
  \E rotation \in Rotations, reflect \in BOOLEAN :
    /\ jswrap_graphics_setRotation(rotation, reflect)
    /\ call' = [name |-> "setRotation", rotation |-> rotation, reflect |-> reflect]
    /\ prev' = call
    /\ UNCHANGED done

CallGetWidthOrHeight ==
  \E height \in BOOLEAN :
    /\ jswrap_graphics_getWidthOrHeight(height)
    /\ call' = [name |-> "getWidthOrHeight", height |-> height]
    /\ prev' = call
    /\ UNCHANGED done

NextRotation == CallSetRotation \/ CallGetWidthOrHeight

SpecRotation == InitRotation /\ [][NextRotation]_vars


----------------------------------------------------------------------------
\* JsVar arguments: undefined, an integer, or a number with a fraction. A
\* fractional number is n / FloatDen.

FloatDen == 1024

Undefined == [t |-> "undefined"]
JsInt(i) == [t |-> "int", i |-> i]
JsFloat(n) == [t |-> "float", n |-> n]
JsString(bytes) == [t |-> "string", s |-> bytes]

jsvIsString(v) == v.t = "string"
jsvIsInt(v) == v.t = "int"

jsvIsUndefined(v) == v.t = "undefined"

\* jsvGetFloat, in units of 1 / FloatDen
jsvGetFloat(v) == IF v.t = "int" THEN v.i * FloatDen ELSE v.n

\* (unsigned int)i for an int i: two's complement
WordOfInt(i) ==
  IF i >= 0 THEN WordOf(i)
  ELSE LET m == (i + 2147483647) + 1
       IN  Word(128 + ((m \div 16777216) % 256), (m \div 65536) % 256, (m \div 256) % 256, m % 256)

\* integer division as C does it, rounding towards zero
TruncDiv(a, b) == IF a >= 0 THEN a \div b ELSE -((-a) \div b)

\* (unsigned int)jsvGetInteger(v): a number with a fraction is truncated
jsvGetInteger(v) ==
  IF v.t = "int" THEN WordOfInt(v.i) ELSE WordOfInt(TruncDiv(v.n, FloatDen))

\* (int)(jsvGetFloat(v)*256)
Scale256(v) == TruncDiv(jsvGetFloat(v) * 256, FloatDen)

----------------------------------------------------------------------------
\* setColor, setBgColor

\* if (c>255) c=255; if (c<0) c=0;
Clamp(c) == IF c > 255 THEN 255 ELSE IF c < 0 THEN 0 ELSE c

\* a | b for a, b >= 0
RECURSIVE BitOr(_, _)
BitOr(a, b) ==
  IF a = 0 THEN b
  ELSE IF b = 0 THEN a
  ELSE (IF a % 2 = 1 \/ b % 2 = 1 THEN 1 ELSE 0) + 2 * BitOr(a \div 2, b \div 2)

ShiftLeft(a, n) == a * Pow2(n)
ShiftRight(a, n) == a \div Pow2(n)

\* the colour word for clamped channels ri, gi, bi at depth bpp
PackColorSwapped(ri, gi, bi, bpp) ==
  IF bpp = 16
  THEN WordOf(BitOr(BitOr(ShiftRight(ri, 3), ShiftLeft(ShiftRight(gi, 2), 5)),
                    ShiftLeft(ShiftRight(bi, 3), 11)))
  ELSE LET rgb == BitOr(BitOr(ri, ShiftLeft(gi, 8)), ShiftLeft(bi, 16))
       IN  IF bpp = 32 THEN Word(255, rgb \div 65536, (rgb \div 256) % 256, rgb % 256)
           ELSE IF bpp = 24 THEN WordOf(rgb)
           ELSE IF (ri + gi + bi) >= 384 THEN WordOnes ELSE WordZero
PackColor(ri, gi, bi, bpp) ==
  IF bpp = 16
  THEN WordOf(BitOr(BitOr(ShiftRight(bi, 3), ShiftLeft(ShiftRight(gi, 2), 5)),
                    ShiftLeft(ShiftRight(ri, 3), 11)))
  ELSE LET rgb == BitOr(BitOr(bi, ShiftLeft(gi, 8)), ShiftLeft(ri, 16))
       IN  IF bpp = 32 THEN Word(BitOr(255, rgb \div 16777216), (rgb \div 65536) % 256,
                                 (rgb \div 256) % 256, rgb % 256)
           ELSE IF bpp = 24 THEN WordOf(rgb)
           ELSE IF (ri + gi + bi) >= 384 THEN WordOnes ELSE WordZero

\* the colour setColorX computes from its arguments
ColorOf(r, g, b, bpp) ==
  IF ~jsvIsUndefined(g) /\ ~jsvIsUndefined(b)
  THEN PackColor(Clamp(Scale256(r)), Clamp(Scale256(g)), Clamp(Scale256(b)), bpp)
  ELSE jsvGetInteger(r)

\* the descriptor setColorX hands to graphicsSetVar
StoreColor(g, color, isForeground) ==
  IF isForeground THEN [g EXCEPT !.fgColor = color] ELSE [g EXCEPT !.bgColor = color]

jswrap_graphics_setColorX(r, g, b, isForeground) ==
  /\ gfx' = StoreColor(gfx, ColorOf(r, g, b, gfx.bpp), isForeground)
  /\ out' = NoOut
  /\ UNCHANGED <<build, font, lastRotation>>

\* (1L<<bpp)-1 where the shift does not overflow the long
LowOnes(bpp) ==
  IF bpp >= 32 THEN WordOnes
  ELSE IF bpp >= 24 THEN Word(Pow2(bpp - 24) - 1, 255, 255, 255)
  ELSE IF bpp >= 16 THEN Word(0, Pow2(bpp - 16) - 1, 255, 255)
  ELSE IF bpp >= 8 THEN Word(0, 0, Pow2(bpp - 8) - 1, 255)
  ELSE Word(0, 0, 0, Pow2(bpp) - 1)

\* (unsigned int)((1L<<bpp)-1L): with a long of 32 bits a shift by 32 is
\* undefined; the processors either take the count modulo 32 (1-1 = 0) or
\* shift the bit out (0-1 = all ones)
BitMasks(bpp, longBits) ==
  IF bpp >= longBits THEN {WordZero, WordOnes} ELSE {LowOnes(bpp)}

\* a & b on bytes
RECURSIVE BitAnd(_, _)
BitAnd(a, b) ==
  IF a = 0 \/ b = 0 THEN 0
  ELSE (IF a % 2 = 1 /\ b % 2 = 1 THEN 1 ELSE 0) + 2 * BitAnd(a \div 2, b \div 2)

WordAnd(a, b) == [i \in 1 .. 4 |-> BitAnd(a[i], b[i])]

\* getColor, getBgColor: the stored colour masked to the depth
jswrap_graphics_getColorX(isForeground) ==
  /\ \E mask \in BitMasks(gfx.bpp, build.longBits) :
       out' = [NoOut EXCEPT !.ret = WordAnd(IF isForeground THEN gfx.fgColor ELSE gfx.bgColor, mask)]
  /\ UNCHANGED <<build, gfx, font, lastRotation>>

----------------------------------------------------------------------------
\* setPixel, lineTo, moveTo

\* setPixel changes cursorX and cursorY of its own copy of gfx.data and
\* returns without graphicsSetVar: the stored descriptor keeps its cursor
jswrap_graphics_setPixel(x, y, color) ==
  LET col == IF ~jsvIsUndefined(color) THEN jsvGetInteger(color) ELSE gfx.fgColor
      local == [gfx EXCEPT !.cursorX = Short(x), !.cursorY = Short(y)]
  IN  /\ out' = [NoOut EXCEPT !.pixels = <<<<Short(x), Short(y), col>>>>]
      /\ UNCHANGED <<build, gfx, font, lastRotation>>

MoveCursor(g, x, y) == [g EXCEPT !.cursorX = Short(x), !.cursorY = Short(y)]

jswrap_graphics_lineTo(x, y) ==
  /\ out' = [NoOut EXCEPT !.lines = <<<<gfx.cursorX, gfx.cursorY, Short(x), Short(y)>>>>]
  /\ gfx' = MoveCursor(gfx, x, y)
  /\ UNCHANGED <<build, font, lastRotation>>

jswrap_graphics_moveTo(x, y) ==
  /\ out' = NoOut
  /\ gfx' = MoveCursor(gfx, x, y)
  /\ UNCHANGED <<build, font, lastRotation>>

----------------------------------------------------------------------------
\* A session of colour and cursor calls on one surface

Coords == {3, 40000}
CursorColors == {Undefined, JsInt(2)}
CursorChannels == {<<JsFloat(FloatDen), JsFloat(FloatDen \div 2), JsFloat(0)>>,
                   <<JsInt(5), Undefined, Undefined>>}

Init ==
  /\ build \in Builds
  /\ \E bpp \in {8, 16} : gfx = createArrayBuffer(MaxSide, MaxSide, bpp, FALSE, FALSE)
  /\ font = NoFont
  /\ call = NoCall
  /\ prev = NoCall
  /\ lastRotation = 0
  /\ out = NoOut
  /\ done = FALSE

CallSetColor ==
  \E c \in CursorChannels, isForeground \in BOOLEAN :
    /\ jswrap_graphics_setColorX(c[1], c[2], c[3], isForeground)
    /\ call' = [name |-> "setColorX", r |-> c[1], g |-> c[2], b |-> c[3],
                isForeground |-> isForeground]
    /\ UNCHANGED <<prev, done>>

CallGetColor ==
  \E isForeground \in BOOLEAN :
    /\ jswrap_graphics_getColorX(isForeground)
    /\ call' = [name |-> "getColorX", isForeground |-> isForeground]
    /\ UNCHANGED <<prev, done>>

CallSetPixel ==
  \E x \in Coords, y \in Coords, color \in CursorColors :
    /\ jswrap_graphics_setPixel(x, y, color)
    /\ call' = [name |-> "setPixel", x |-> x, y |-> y, color |-> color]
    /\ UNCHANGED <<prev, done>>

CallLineTo ==
  \E x \in Coords, y \in Coords :
    /\ jswrap_graphics_lineTo(x, y)
    /\ call' = [name |-> "lineTo", x |-> x, y |-> y]
    /\ UNCHANGED <<prev, done>>

CallMoveTo ==
  \E x \in Coords, y \in Coords :
    /\ jswrap_graphics_moveTo(x, y)
    /\ call' = [name |-> "moveTo", x |-> x, y |-> y]
    /\ UNCHANGED <<prev, done>>

Next == CallSetColor \/ CallGetColor \/ CallSetPixel \/ CallLineTo \/ CallMoveTo

Spec == Init /\ [][Next]_vars

----------------------------------------------------------------------------
\* setColor and setBgColor applied to arguments drawn at the start

ChannelValues == {-2 * FloatDen, -3, 0, (FloatDen \div 2) - 1, FloatDen \div 2,
                  FloatDen - 1, FloatDen, 3 * FloatDen}
Channels == {JsFloat(n) : n \in ChannelValues}
ColorInts == {JsInt(0), JsInt(5), JsInt(-1), JsFloat(3 * FloatDen + 1)}
Depths == {1, 2, 4, 8, 16, 24, 32}

ColorCalls ==
  [name : {"setColorX"}, r : Channels \cup {JsInt(1)}, g : Channels, b : Channels,
   isForeground : BOOLEAN]
  \cup [name : {"setColorX"}, r : ColorInts, g : {Undefined} \cup Channels, b : {Undefined},
        isForeground : BOOLEAN]

InitColor ==
  /\ build \in Builds
  /\ \E bpp \in Depths : gfx = createArrayBuffer(MaxSide, MaxSide, bpp, FALSE, FALSE)
  /\ font = NoFont
  /\ call \in ColorCalls
  /\ prev = NoCall
  /\ lastRotation = 0
  /\ out = NoOut
  /\ done = FALSE

DoSetColor ==
  /\ ~done
  /\ call.name = "setColorX"
  /\ jswrap_graphics_setColorX(call.r, call.g, call.b, call.isForeground)
  /\ done' = TRUE
  /\ UNCHANGED <<call, prev>>

NextColor == DoSetColor

SpecColor == InitColor /\ [][NextColor]_vars

----------------------------------------------------------------------------
\* drawImage

\* jsvStringIteratorHasChar / GetChar at the 1-based position pos of a
\* string of bytes: past the end GetChar gives 0
HasChar(str, pos) == pos <= Len(str)
GetChar(str, pos) == IF pos <= Len(str) THEN str[pos] ELSE 0

\* colData>>n for 0 <= n <= 7
WordShiftRight(w, n) ==
  [i \in 1 .. 4 |-> (((IF i = 1 THEN 0 ELSE w[i - 1]) % Pow2(n)) * Pow2(8 - n)) + (w[i] \div Pow2(n))]

\* (colData<<8) | byte in 32 bits
PushByte(w, byte) == <<w[2], w[3], w[4], byte>>

\* while (bits < imageBpp) { colData = (colData<<8) | next byte; bits += 8 }
RECURSIVE LoadBits(_, _, _)
LoadBits(st, buffer, imageBpp) ==
  IF st.bits < imageBpp
  THEN LoadBits([st EXCEPT !.colData = PushByte(st.colData, GetChar(buffer, st.pos)),
                           !.pos = IF HasChar(buffer, st.pos) THEN st.pos + 1 ELSE st.pos,
                           !.bits = st.bits + 8],
                buffer, imageBpp)
  ELSE st

\* x++; if (x>=imageWidth) { x=0; y++; }
NextPixelPadded(st, imageWidth) ==
  IF st.x + 1 >= imageWidth THEN [st EXCEPT !.x = 0, !.y = st.y + 1, !.bits = 0]
  ELSE [st EXCEPT !.x = st.x + 1]
NextPixel(st, imageWidth) ==
  IF st.x + 1 >= imageWidth THEN [st EXCEPT !.x = 0, !.y = st.y + 1]
  ELSE [st EXCEPT !.x = st.x + 1]

\* one turn of the loop over the samples
ImageStep(st, image, mask, xPos, yPos, g) ==
  LET ld == LoadBits(st, image.buffer, image.bpp)
      col == WordAnd(WordShiftRight(ld.colData, ld.bits - image.bpp), mask)
      isTransparent == ~jsvIsUndefined(image.transparent)
      write == ~isTransparent \/ jsvGetInteger(image.transparent) # col
      color == IF image.bpp = 1
               THEN (IF col # WordZero THEN g.fgColor ELSE g.bgColor)
               ELSE col
      drawn == [ld EXCEPT !.bits = ld.bits - image.bpp,
                          !.samples = Append(ld.samples, [x |-> ld.x, y |-> ld.y, col |-> col]),
                          !.pixels = IF write
                                     THEN Append(ld.pixels, <<Short(ld.x + xPos), Short(ld.y + yPos), color>>)
                                     ELSE ld.pixels]
  IN  NextPixel(drawn, image.width)

\* while ((bits>=imageBpp || jsvStringIteratorHasChar(&it)) && y<imageHeight)
RECURSIVE ImageLoopNoHeight(_, _, _, _, _, _)
ImageLoopNoHeight(st, image, mask, xPos, yPos, g) ==
  IF st.bits >= image.bpp \/ HasChar(image.buffer, st.pos)
  THEN ImageLoopNoHeight(ImageStep(st, image, mask, xPos, yPos, g), image, mask, xPos, yPos, g)
  ELSE st
RECURSIVE ImageLoop(_, _, _, _, _, _)
ImageLoop(st, image, mask, xPos, yPos, g) ==
  IF (st.bits >= image.bpp \/ HasChar(image.buffer, st.pos)) /\ st.y < image.height
  THEN ImageLoop(ImageStep(st, image, mask, xPos, yPos, g), image, mask, xPos, yPos, g)
  ELSE st

ImageStart ==
  [x |-> 0, y |-> 0, bits |-> 0, colData |-> WordZero, pos |-> 1,
   samples |-> <<>>, pixels |-> <<>>]

\* the test that makes an image valid
ValidImage(image) ==
  /\ image.isArrayBuffer
  /\ image.width > 0 /\ image.height > 0
  /\ image.bpp > 0 /\ image.bpp <= 32

jswrap_graphics_drawImage(image, xPos, yPos) ==
  /\ IF ~ValidImage(image)
     THEN out' = [NoOut EXCEPT !.report = "Expecting first argument to a valid Image"]
     ELSE \E mask \in BitMasks(image.bpp, build.longBits) :
            LET end == ImageLoop(ImageStart, image, mask, xPos, yPos, gfx)
            IN  out' = [NoOut EXCEPT !.pixels = end.pixels, !.samples = end.samples,
                                     !.read = end.pos - 1]
  /\ UNCHANGED <<build, gfx, font, lastRotation>>

----------------------------------------------------------------------------
\* drawImage applied to an image drawn at the start

MaxBufLen == 12
MaxImageSide == 2

BytePatterns ==
  {<<128, 64, 255, 1, 165, 60, 15, 241, 126, 195, 90, 7, 224, 19>>,
   <<255, 255, 255, 255, 255, 255, 255, 255, 255, 255, 255, 255, 255, 255>>}

ImageBuffers ==
  {SubSeq(p, 1, n) : p \in BytePatterns, n \in 0 .. Min(MaxBufLen, 14)}

Images ==
  [width : 0 .. MaxImageSide, height : 0 .. MaxImageSide, bpp : 0 .. 33,
   transparent : {Undefined, JsInt(1)}, isArrayBuffer : {TRUE}, buffer : ImageBuffers]
  \cup [width : {1}, height : {1}, bpp : {1}, transparent : {Undefined},
        isArrayBuffer : {FALSE}, buffer : {<<>>}]

ImageOffsets == {<<0, 0>>, <<5, -3>>}

InitImage ==
  /\ build \in {b \in Builds : ~b.charSigned}
  /\ gfx = createArrayBuffer(MaxSide, MaxSide, 16, FALSE, FALSE)
  /\ font = NoFont
  /\ \E image \in Images, at \in ImageOffsets :
       call = [name |-> "drawImage", image |-> image, xPos |-> at[1], yPos |-> at[2]]
  /\ prev = NoCall
  /\ lastRotation = 0
  /\ out = NoOut
  /\ done = FALSE

DoDrawImage ==
  /\ ~done
  /\ call.name = "drawImage"
  /\ jswrap_graphics_drawImage(call.image, call.xPos, call.yPos)
  /\ done' = TRUE
  /\ UNCHANGED <<call, prev>>

NextImage == DoDrawImage

SpecImage == InitImage /\ [][NextImage]_vars

----------------------------------------------------------------------------
\* setFontBitmap, setFontVector, setFontCustom

\* what setFontSizeX leaves: [gfx, font]
SetFontSizeXKeepFont(g, f, size, checkValid) ==
  LET s1 == IF checkValid /\ size < 1 THEN 1 ELSE size
      s2 == IF checkValid /\ s1 > 1023 THEN 1023 ELSE s1
  IN  [gfx |-> [g EXCEPT !.fontSize = Short(s2)], font |-> f, report |-> "none"]
SetFontSizeX(g, f, size, checkValid) ==
  LET s1 == IF checkValid /\ size < 1 THEN 1 ELSE size
      s2 == IF checkValid /\ s1 > 1023 THEN 1023 ELSE s1
  IN  [gfx |-> [g EXCEPT !.fontSize = Short(s2)],
       font |-> IF g.fontSize = JSGRAPHICS_FONTSIZE_CUSTOM THEN NoFont ELSE f,
       report |-> "none"]

\* what setFontCustom leaves: [gfx, font, report]
SetFontCustomAnyHeight(g, f, bitmap, firstChar, width, height) ==
  IF ~jsvIsString(bitmap)
  THEN [gfx |-> g, font |-> f, report |-> "Font bitmap must be a String"]
  ELSE IF firstChar < 0 \/ firstChar > 255
  THEN [gfx |-> g, font |-> f, report |-> "First character out of range"]
  ELSE IF ~jsvIsString(width) /\ ~jsvIsInt(width)
  THEN [gfx |-> g, font |-> f, report |-> "Font width must be a String or an integer"]
  ELSE [gfx |-> [g EXCEPT !.fontSize = JSGRAPHICS_FONTSIZE_CUSTOM],
        font |-> [set |-> TRUE, bmp |-> bitmap.s, width |-> width, height |-> height,
                  firstChar |-> firstChar],
        report |-> "none"]
SetFontCustom(g, f, bitmap, firstChar, width, height) ==
  IF ~jsvIsString(bitmap)
  THEN [gfx |-> g, font |-> f, report |-> "Font bitmap must be a String"]
  ELSE IF firstChar < 0 \/ firstChar > 255
  THEN [gfx |-> g, font |-> f, report |-> "First character out of range"]
  ELSE IF ~jsvIsString(width) /\ ~jsvIsInt(width)
  THEN [gfx |-> g, font |-> f, report |-> "Font width must be a String or an integer"]
  ELSE IF height <= 0 \/ height > 255
  THEN [gfx |-> g, font |-> f, report |-> "Invalid height"]
  ELSE [gfx |-> [g EXCEPT !.fontSize = JSGRAPHICS_FONTSIZE_CUSTOM],
        font |-> [set |-> TRUE, bmp |-> bitmap.s, width |-> width, height |-> height,
                  firstChar |-> firstChar],
        report |-> "none"]

jswrap_graphics_setFontSizeX(size, checkValid) ==
  LET r == SetFontSizeX(gfx, font, size, checkValid)
  IN  /\ gfx' = r.gfx
      /\ font' = r.font
      /\ out' = NoOut
      /\ UNCHANGED <<build, lastRotation>>

jswrap_graphics_setFontCustom(bitmap, firstChar, width, height) ==
  LET r == SetFontCustom(gfx, font, bitmap, firstChar, width, height)
  IN  /\ gfx' = r.gfx
      /\ font' = r.font
      /\ out' = [NoOut EXCEPT !.report = r.report]
      /\ UNCHANGED <<build, lastRotation>>

----------------------------------------------------------------------------
\* drawString, stringWidth

\* char ch = jsvStringIteratorGetChar(&it): the byte as a char, which is
\* signed or unsigned as the compiler has it
CharOf(byte, charSigned) == IF charSigned /\ byte >= 128 THEN byte - 256 ELSE byte

\* drawString's width and bit offset of the glyph of ch, before the offset
\* is multiplied by the height
RECURSIVE WidthsBefore(_, _, _)
WidthsBefore(widths, pos, n) ==
  \* while (HasChar(&wit) && GetIndex(&wit) < n) { sum += GetChar; Next }
  IF HasChar(widths, pos) /\ pos - 1 < n
  THEN UChar(GetChar(widths, pos)) + WidthsBefore(widths, pos + 1, n)
  ELSE 0

GlyphWidthAndOffsetZeroBelow(f, ch) ==
  IF ch < f.firstChar THEN [width |-> 0, bmpOffset |-> 0]
  ELSE IF jsvIsString(f.width)
  THEN [width |-> UChar(GetChar(f.width.s, Min(ch - f.firstChar, Len(f.width.s)) + 1)),
        bmpOffset |-> WidthsBefore(f.width.s, 1, ch - f.firstChar)]
  ELSE [width |-> f.width.i, bmpOffset |-> f.width.i * (ch - f.firstChar)]
GlyphWidthAndOffset(f, ch) ==
  IF jsvIsString(f.width)
  THEN IF ch >= f.firstChar
       THEN [width |-> UChar(GetChar(f.width.s, Min(ch - f.firstChar, Len(f.width.s)) + 1)),
             bmpOffset |-> WidthsBefore(f.width.s, 1, ch - f.firstChar)]
       ELSE [width |-> 0, bmpOffset |-> 0]
  ELSE [width |-> f.width.i, bmpOffset |-> f.width.i * (ch - f.firstChar)]

\* the two loops over cx and cy: st = [cx, cy, pos, bmpOffset, pixels]
GlyphBitLSBFirst(byte, bmpOffset) == (byte \div Pow2(bmpOffset)) % 2 = 1
\* (jsvStringIteratorGetChar(&cit)<<bmpOffset)&128
GlyphBit(byte, bmpOffset) == (byte \div Pow2(7 - bmpOffset)) % 2 = 1

RECURSIVE GlyphLoop(_, _, _, _, _, _)
GlyphLoop(st, f, width, x, y, fgColor) ==
  IF st.cx >= width THEN st
  ELSE IF st.cy >= f.height
  THEN GlyphLoop([st EXCEPT !.cx = st.cx + 1, !.cy = 0], f, width, x, y, fgColor)
  ELSE LET px == IF GlyphBit(GetChar(f.bmp, st.pos), st.bmpOffset)
                 THEN Append(st.pixels, <<Short(st.cx + x), Short(st.cy + y), fgColor>>)
                 ELSE st.pixels
           wrap == st.bmpOffset + 1 = 8
       IN  GlyphLoop([st EXCEPT !.cy = st.cy + 1, !.pixels = px,
                                !.bmpOffset = IF wrap THEN 0 ELSE st.bmpOffset + 1,
                                !.pos = IF wrap /\ HasChar(f.bmp, st.pos) THEN st.pos + 1 ELSE st.pos],
                     f, width, x, y, fgColor)

\* the custom-font branch of drawString for one character: [width, pixels]
DrawCustomChar(f, ch, x, y, fgColor) ==
  LET wo == GlyphWidthAndOffset(f, ch)
  IN  IF ch >= f.firstChar
      THEN LET bits == wo.bmpOffset * f.height
               \* jsvStringIteratorNew(&cit, customBitmap, (size_t)bmpOffset>>3)
               start == IF bits < 0 THEN Len(f.bmp) + 1 ELSE Min(bits \div 8, Len(f.bmp)) + 1
               end == GlyphLoop([cx |-> 0, cy |-> 0, pos |-> start, bmpOffset |-> bits % 8,
                                 pixels |-> <<>>], f, wo.width, x, y, fgColor)
           IN  [width |-> wo.width, pixels |-> end.pixels]
      ELSE [width |-> wo.width, pixels |-> <<>>]

\* one character of drawString: what is drawn and how far x moves
DrawChar(g, f, ch, x, y, vectorWidth) ==
  IF g.fontSize > 0
  THEN [prim |-> "graphicsFillVectorChar", width |-> vectorWidth[ch], pixels |-> <<>>]
  ELSE IF g.fontSize = JSGRAPHICS_FONTSIZE_4X6
  THEN [prim |-> "graphicsDrawChar4x6", width |-> 4, pixels |-> <<>>]
  ELSE IF g.fontSize = JSGRAPHICS_FONTSIZE_CUSTOM
  THEN LET c == DrawCustomChar(f, ch, x, y, g.fgColor)
       IN  [prim |-> "graphicsSetPixel", width |-> c.width, pixels |-> c.pixels]
  ELSE [prim |-> "none", width |-> 0, pixels |-> <<>>]

\* if (jspIsInterrupted()) break;  with the poll after character index i
\* (from 0) answering true from index interruptedAt on
BreakNever(i, interruptedAt) == FALSE
Break(i, interruptedAt) == i >= interruptedAt

\* the loop over the characters of str, from the 1-based position pos
RECURSIVE DrawStringLoop(_, _, _, _, _, _, _, _, _)
DrawStringLoop(g, f, str, pos, x, y, interruptedAt, vectorWidth, charSigned) ==
  IF ~HasChar(str, pos) THEN <<>>
  ELSE LET ch == CharOf(GetChar(str, pos), charSigned)
           d == DrawChar(g, f, ch, x, y, vectorWidth)
           entry == [index |-> pos - 1, ch |-> ch, x |-> x, y |-> y, prim |-> d.prim,
                     width |-> d.width, pixels |-> d.pixels]
       IN  IF Break(pos - 1, interruptedAt)
           THEN <<entry>>
           ELSE <<entry>> \o DrawStringLoop(g, f, str, pos + 1, x + d.width, y, interruptedAt,
                                            vectorWidth, charSigned)

RECURSIVE AllPixels(_)
AllPixels(glyphs) ==
  IF glyphs = <<>> THEN <<>> ELSE Head(glyphs).pixels \o AllPixels(Tail(glyphs))

\* the widths graphicsFillVectorChar and graphicsVectorCharWidth may give
VectorWidths(g, chars) ==
  IF g.fontSize > 0 THEN [chars -> {g.fontSize, 2 * g.fontSize}] ELSE [chars -> {0}]

CharsOf(str, charSigned) == {CharOf(str[i], charSigned) : i \in 1 .. Len(str)}

jswrap_graphics_drawString(str, x, y, interruptedAt) ==
  /\ \E vectorWidth \in VectorWidths(gfx, CharsOf(str, build.charSigned)) :
       LET glyphs == DrawStringLoop(gfx, font, str, 1, x, y, interruptedAt, vectorWidth,
                                    build.charSigned)
       IN  out' = [NoOut EXCEPT !.glyphs = glyphs, !.pixels = AllPixels(glyphs)]
  /\ UNCHANGED <<build, gfx, font, lastRotation>>

\* one character of stringWidth
CharWidthZeroBelow(g, f, ch, vectorWidth) ==
  IF g.fontSize > 0 THEN vectorWidth[ch]
  ELSE IF g.fontSize = JSGRAPHICS_FONTSIZE_4X6 THEN 4
  ELSE IF g.fontSize = JSGRAPHICS_FONTSIZE_CUSTOM
  THEN IF ch >= f.firstChar
       THEN IF jsvIsString(f.width)
            THEN UChar(GetChar(f.width.s, Min(ch - f.firstChar, Len(f.width.s)) + 1))
            ELSE f.width.i
       ELSE 0
  ELSE 0
CharWidth(g, f, ch, vectorWidth) ==
  IF g.fontSize > 0 THEN vectorWidth[ch]
  ELSE IF g.fontSize = JSGRAPHICS_FONTSIZE_4X6 THEN 4
  ELSE IF g.fontSize = JSGRAPHICS_FONTSIZE_CUSTOM
  THEN IF jsvIsString(f.width)
       THEN IF ch >= f.firstChar
            \* (unsigned char)jsvGetCharInString(customWidth, (size_t)(ch-customFirstChar))
            THEN UChar(GetChar(f.width.s, Min(ch - f.firstChar, Len(f.width.s)) + 1))
            ELSE 0
       ELSE f.width.i
  ELSE 0

RECURSIVE StringWidthLoop(_, _, _, _, _, _)
StringWidthLoop(g, f, str, pos, vectorWidth, charSigned) ==
  IF ~HasChar(str, pos) THEN <<>>
  ELSE LET ch == CharOf(GetChar(str, pos), charSigned)
       IN  <<[index |-> pos - 1, ch |-> ch, width |-> CharWidth(g, f, ch, vectorWidth)]>>
           \o StringWidthLoop(g, f, str, pos + 1, vectorWidth, charSigned)

RECURSIVE SumWidths(_)
SumWidths(glyphs) ==
  IF glyphs = <<>> THEN 0 ELSE Head(glyphs).width + SumWidths(Tail(glyphs))

jswrap_graphics_stringWidth(str) ==
  /\ \E vectorWidth \in VectorWidths(gfx, CharsOf(str, build.charSigned)) :
       LET glyphs == StringWidthLoop(gfx, font, str, 1, vectorWidth, build.charSigned)
       IN  out' = [NoOut EXCEPT !.glyphs = glyphs, !.ret = SumWidths(glyphs)]
  /\ UNCHANGED <<build, gfx, font, lastRotation>>

----------------------------------------------------------------------------
\* drawString and stringWidth applied to a string drawn at the start, on a
\* surface whose font one of the setFont calls has selected

MaxStrLen == 2
MaxVectorSize == 2

StrBytes == {32, 33, 34, 200}
Strings == SeqsUpTo(StrBytes, MaxStrLen)
FontBitmaps == {<<165, 60, 241, 15>>, <<255, 129>>}
FontWidths == {JsInt(-1), JsInt(2), JsInt(3), JsString(<<1, 2, 3>>), JsString(<<2, 0>>)}
FontFirstChars == {32, 33}
FontHeights == {2, 3}

Constructed == createArrayBuffer(MaxSide, MaxSide, 16, FALSE, FALSE)

FontSelections ==
  {SetFontSizeX(Constructed, NoFont, JSGRAPHICS_FONTSIZE_4X6, FALSE)}
  \cup {SetFontSizeX(Constructed, NoFont, size, TRUE) : size \in 1 .. MaxVectorSize}
  \cup {SetFontCustom(Constructed, NoFont, JsString(bmp), firstChar, width, height) :
          bmp \in FontBitmaps, firstChar \in FontFirstChars, width \in FontWidths,
          height \in FontHeights}

TextCalls ==
  [name : {"drawString"}, str : Strings, x : {0, 10}, y : {-4}, interruptedAt : 0 .. MaxStrLen]
  \cup [name : {"stringWidth"}, str : Strings]

InitFont ==
  /\ build \in {b \in Builds : b.longBits = 32}
  /\ \E sel \in FontSelections : gfx = sel.gfx /\ font = sel.font
  /\ call \in TextCalls
  /\ prev = NoCall
  /\ lastRotation = 0
  /\ out = NoOut
  /\ done = FALSE

DoDrawString ==
  /\ ~done
  /\ call.name = "drawString"
  /\ jswrap_graphics_drawString(call.str, call.x, call.y, call.interruptedAt)
  /\ done' = TRUE
  /\ UNCHANGED <<call, prev>>

DoStringWidth ==
  /\ ~done
  /\ call.name = "stringWidth"
  /\ jswrap_graphics_stringWidth(call.str)
  /\ done' = TRUE
  /\ UNCHANGED <<call, prev>>

NextFont == DoDrawString \/ DoStringWidth

SpecFont == InitFont /\ [][NextFont]_vars

----------------------------------------------------------------------------
\* A session of setFontBitmap, setFontVector and setFontCustom calls on one
\* surface

SessionSizes == {-5, 0, 1, MaxVectorSize, 1023, 1024, 40000}
SessionBitmaps == {JsString(<<255, 129>>), JsInt(7)}
SessionFirstChars == {-1, 0, 255, 256}
SessionWidths == {JsInt(2), JsString(<<1, 2, 3>>), JsFloat(2 * FloatDen), Undefined}
SessionHeights == {0, 1, 255, 256}

InitFontSession ==
  /\ build \in {b \in Builds : ~b.charSigned /\ b.longBits = 32}
  /\ gfx = Constructed
  /\ font = NoFont
  /\ call = NoCall
  /\ prev = NoCall
  /\ lastRotation = 0
  /\ out = NoOut
  /\ done = FALSE

\* setFontBitmap: jswrap_graphics_setFontSizeX(parent, JSGRAPHICS_FONTSIZE_4X6, false)
CallSetFontBitmap ==
  /\ jswrap_graphics_setFontSizeX(JSGRAPHICS_FONTSIZE_4X6, FALSE)
  /\ call' = [name |-> "setFontBitmap"]
  /\ UNCHANGED <<prev, done>>

\* setFontVector: jswrap_graphics_setFontSizeX(parent, size, true)
CallSetFontVector ==
  \E size \in SessionSizes :
    /\ jswrap_graphics_setFontSizeX(size, TRUE)
    /\ call' = [name |-> "setFontVector", size |-> size]
    /\ UNCHANGED <<prev, done>>

CallSetFontCustom ==
  \E bitmap \in SessionBitmaps, firstChar \in SessionFirstChars, width \in SessionWidths,
     height \in SessionHeights :
    /\ jswrap_graphics_setFontCustom(bitmap, firstChar, width, height)
    /\ call' = [name |-> "setFontCustom", bitmap |-> bitmap, firstChar |-> firstChar,
                width |-> width, height |-> height]
    /\ UNCHANGED <<prev, done>>

NextFontSession == CallSetFontBitmap \/ CallSetFontVector \/ CallSetFontCustom

SpecFontSession == InitFontSession /\ [][NextFontSession]_vars

----------------------------------------------------------------------------
\* fillPoly

maxVerts == 128

\* (short)jsvGetIntegerAndUnLock(jsvSkipName(val)): undefined gives 0, a
\* number with a fraction is truncated
ShortOfVar(v) ==
  Short(IF v.t = "int" THEN v.i ELSE IF v.t = "float" THEN TruncDiv(v.n, FloatDen) ELSE 0)

\* while (item && idx<maxVerts), with idx items already taken
MoreToCollectUncapped(items, idx) == idx < Len(items)
MoreToCollect(items, idx) == idx < Len(items) /\ idx < maxVerts

\* the loop that fills verts[]: the values stored, in order
RECURSIVE CollectVerts(_, _)
CollectVerts(items, verts) ==
  IF MoreToCollect(items, Len(verts))
  THEN CollectVerts(items, Append(verts, ShortOfVar(items[Len(verts) + 1])))
  ELSE verts

\* if (idx==maxVerts) jsWarn(...)
WarnsAt(idx) == idx = maxVerts

\* graphicsFillPoly(&gfx, idx/2, verts): the points and the values of verts
\* the fill may read
jswrap_graphics_fillPoly(poly) ==
  /\ IF ~poly.isArray
     THEN out' = NoOut
     ELSE LET verts == CollectVerts(poly.items, <<>>)
              idx == Len(verts)
              points == idx \div 2
          IN  out' = [NoOut EXCEPT
                        !.report = IF WarnsAt(idx)
                                   THEN "Maximum number of points (64) exceeded for fillPoly"
                                   ELSE "none",
                        !.fills = <<[points |-> points, verts |-> SubSeq(verts, 1, 2 * points)]>>]
  /\ UNCHANGED <<build, gfx, font, lastRotation>>

----------------------------------------------------------------------------
\* fillPoly applied to an array drawn at the start

MaxPolyLen == 150

\* element i (from 0) of the two arrays the polygons are prefixes of
PolyItem(pattern, i) ==
  IF pattern = 1 THEN JsInt((i * 300) - 100)
  ELSE IF i % 3 = 0 THEN JsFloat((i * FloatDen) + (FloatDen \div 2))
  ELSE IF i % 3 = 1 THEN JsInt(-i)
  ELSE Undefined

Polys ==
  {[isArray |-> TRUE, items |-> [i \in 1 .. n |-> PolyItem(pattern, i - 1)]] :
     n \in 0 .. MaxPolyLen, pattern \in {1, 2}}
  \cup {[isArray |-> FALSE, items |-> <<>>]}

InitPoly ==
  /\ build \in {b \in Builds : ~b.charSigned /\ b.longBits = 32}
  /\ gfx = Constructed
  /\ font = NoFont
  /\ \E poly \in Polys : call = [name |-> "fillPoly", poly |-> poly]
  /\ prev = NoCall
  /\ lastRotation = 0
  /\ out = NoOut
  /\ done = FALSE

DoFillPoly ==
  /\ ~done
  /\ call.name = "fillPoly"
  /\ jswrap_graphics_fillPoly(call.poly)
  /\ done' = TRUE
  /\ UNCHANGED <<call, prev>>

NextPoly == DoFillPoly

SpecPoly == InitPoly /\ [][NextPoly]_vars

----------------------------------------------------------------------------
\* Claims about rotation (checked under SpecRotation)

\* the table of section 4.2: rotation -> flags before reflection
TableFlags(rotation) ==
  CASE rotation = 0 -> {}
    [] rotation = 1 -> {"SWAP_XY", "INVERT_X"}
    [] rotation = 2 -> {"INVERT_X", "INVERT_Y"}
    [] rotation = 3 -> {"SWAP_XY", "INVERT_Y"}

\* the same table with the reflection applied
ReflectedTableFlags(rotation) ==
  CASE rotation = 0 -> {"INVERT_X"}
    [] rotation = 1 -> {"SWAP_XY", "INVERT_X", "INVERT_Y"}
    [] rotation = 2 -> {"INVERT_Y"}
    [] rotation = 3 -> {"SWAP_XY"}

Transform(g) == g.flags \cap TransformFlags

IsSetRotation(c, reflect) ==
  /\ c.name = "setRotation"
  /\ c.rotation \in 0 .. 3
  /\ c.reflect = reflect

TwiceReflected == IsSetRotation(call, TRUE) /\ prev = call

\* C3 as stated: after setRotation(r, true) twice the flags are those of
\* setRotation(r, false): the second reflected call undoes the reflection.
C3_SecondReflectUndoes ==
  TwiceReflected => Transform(gfx) = TableFlags(call.rotation)

\* C3 amended: after setRotation(r, true) twice the flags are those of one
\* setRotation(r, true): every call clears the three flags first, so the
\* reflection stays and the flags differ from those of setRotation(r, false).
C3_SecondReflectKeeps ==
  TwiceReflected =>
    /\ Transform(gfx) = ReflectedTableFlags(call.rotation)
    /\ Transform(gfx) # TableFlags(call.rotation)

C3_Witness ==
  /\ TwiceReflected
  /\ call.rotation = 1
  /\ Transform(gfx) = {"SWAP_XY", "INVERT_X", "INVERT_Y"}

\* C7: after setRotation(rotation, reflect), whatever the flags were, the
\* three transform flags are the table's for rotation, with reflect toggling
\* invert-y when swap-xy is set and invert-x otherwise; so two calls of
\* setRotation(r, false) give the flags of one.
C7_FlagsFollowTable ==
  /\ IsSetRotation(call, FALSE) => Transform(gfx) = TableFlags(call.rotation)
  /\ IsSetRotation(call, TRUE) => Transform(gfx) = ReflectedTableFlags(call.rotation)

C7_Witness ==
  /\ IsSetRotation(call, TRUE) /\ call.rotation = 3
  /\ IsSetRotation(prev, FALSE) /\ prev.rotation = 2
  /\ Transform(gfx) = {"SWAP_XY"}

\* C8: getWidth returns the stored height and getHeight the stored width
\* exactly when swap-xy is set, which is when the last rotation was 1 or 3;
\* setRotation never changes the stored width and height.
C8_Swapped == "SWAP_XY" \in gfx.flags

C8_WidthHeightFollowSwap ==
  /\ [](C8_Swapped <=> lastRotation \in {1, 3})
  /\ [](call.name = "getWidthOrHeight" =>
          out.ret = IF C8_Swapped = call.height THEN gfx.width ELSE gfx.height)
  /\ [][gfx'.width = gfx.width /\ gfx'.height = gfx.height]_vars

C8_Witness ==
  /\ call = [name |-> "getWidthOrHeight", height |-> FALSE]
  /\ lastRotation = 1
  /\ gfx.width = 2 /\ gfx.height = 3
  /\ out.ret = 3

----------------------------------------------------------------------------
\* Claims about colours and the cursor

\* C5: every operation that changes a colour or the cursor in its copy of
\* the descriptor writes the field back before it returns: after setColor
\* and setBgColor the stored colour is the new one, and after setPixel,
\* lineTo and moveTo the stored cursor is the (short) position given.
C5_WritesBack ==
  /\ call.name \in {"setPixel", "lineTo", "moveTo"} =>
       gfx.cursorX = Short(call.x) /\ gfx.cursorY = Short(call.y)
  /\ call.name = "setColorX" =>
       (IF call.isForeground THEN gfx.fgColor ELSE gfx.bgColor)
         = ColorOf(call.r, call.g, call.b, gfx.bpp)

\* the part of C5 the code keeps: all operations but setPixel write back
WritesBackButSetPixel ==
  /\ call.name \in {"lineTo", "moveTo"} =>
       gfx.cursorX = Short(call.x) /\ gfx.cursorY = Short(call.y)
  /\ call.name = "setColorX" =>
       (IF call.isForeground THEN gfx.fgColor ELSE gfx.bgColor)
         = ColorOf(call.r, call.g, call.b, gfx.bpp)

\* the channel value of section 4.1 for the number n / FloatDen: scaled by
\* 256, truncated, negative to 0, 256 and above to 255
ExpectedChannel(v) ==
  LET n == jsvGetFloat(v)
  IN  IF n >= FloatDen THEN 255
      ELSE IF n <= 0 THEN 0
      ELSE (n * 256) \div FloatDen

ExpectedColor(r, g, b, bpp) ==
  CASE bpp = 16 -> WordOf((b \div 8) + ((g \div 4) * 32) + ((r \div 8) * 2048))
    [] bpp = 24 -> Word(0, r, g, b)
    [] bpp = 32 -> Word(255, r, g, b)
    [] OTHER -> IF r + g + b >= 384 THEN WordOnes ELSE WordZero

ThreeChannels == ~jsvIsUndefined(call.g) /\ ~jsvIsUndefined(call.b)

\* C9: setColor/setBgColor with three channels, each scaled by 256,
\* truncated and clamped to 0..255, stores (b>>3) | (g>>2)<<5 | (r>>3)<<11
\* at 16 bpp, b | g<<8 | r<<16 at 24 bpp, that value with 0xFF000000 at
\* 32 bpp, and at any other depth all ones when r+g+b >= 384, else 0.
C9_Quantized ==
  (done /\ call.name = "setColorX" /\ ThreeChannels) =>
    (IF call.isForeground THEN gfx.fgColor ELSE gfx.bgColor)
      = ExpectedColor(ExpectedChannel(call.r), ExpectedChannel(call.g),
                      ExpectedChannel(call.b), gfx.bpp)

C9_Witness ==
  /\ done
  /\ gfx.bpp = 16
  /\ call = [name |-> "setColorX", r |-> JsFloat(FloatDen), g |-> JsFloat(FloatDen \div 2),
             b |-> JsFloat(-3), isForeground |-> FALSE]
  /\ gfx.bgColor = Word(0, 0, 252, 0)
  /\ gfx.fgColor = WordOnes

----------------------------------------------------------------------------
\* Claims about drawImage (checked under SpecImage)

IsCheckerboardCall ==
  /\ done
  /\ call.name = "drawImage"
  /\ call.image = [width |-> 2, height |-> 2, bpp |-> 1, transparent |-> Undefined,
                   isArrayBuffer |-> TRUE, buffer |-> <<128, 64>>]

At(x, y, color) == <<call.xPos + x, call.yPos + y, color>>
PixelSet == {out.pixels[i] : i \in 1 .. Len(out.pixels)}

\* C2 as stated: the 2x2 1-bit image [0b10000000, 0b01000000] without a
\* transparent key writes exactly four pixels, (0,0) and (1,1) in the
\* foreground colour and (1,0) and (0,1) in the background colour.
C2_Checkerboard ==
  IsCheckerboardCall =>
    /\ Len(out.pixels) = 4
    /\ PixelSet = {At(0, 0, gfx.fgColor), At(1, 1, gfx.fgColor),
                   At(1, 0, gfx.bgColor), At(0, 1, gfx.bgColor)}

\* C2 amended: that image writes exactly four pixels, (0,0) in the
\* foreground colour and (1,0), (0,1) and (1,1) in the background colour:
\* rows are not padded, the four samples are the first four bits 1,0,0,0 of
\* the first byte, and the second byte is never read.
C2_FirstFourBits ==
  IsCheckerboardCall =>
    /\ out.pixels = <<At(0, 0, gfx.fgColor), At(1, 0, gfx.bgColor),
                      At(0, 1, gfx.bgColor), At(1, 1, gfx.bgColor)>>
    /\ out.read = 1

C2_Witness ==
  /\ IsCheckerboardCall
  /\ call.xPos = 5 /\ call.yPos = -3
  /\ gfx.fgColor # gfx.bgColor
  /\ Len(out.pixels) = 4
  /\ out.pixels[4] = <<6, -2, gfx.bgColor>>

\* bit n of the stream, the most significant bit of each byte first; the
\* stream is continued with zero bits past its end
StreamBit(buffer, n) == (GetChar(buffer, (n \div 8) + 1) \div Pow2(7 - (n % 8))) % 2

\* bit t (0: least significant) of the k-th sample of bpp bits
SampleBit(buffer, k, bpp, t) ==
  IF t < bpp THEN StreamBit(buffer, (k * bpp) + (bpp - 1 - t)) ELSE 0

SampleByte(buffer, k, bpp, m) ==
  SampleBit(buffer, k, bpp, 8 * m) + 2 * SampleBit(buffer, k, bpp, 8 * m + 1)
  + 4 * SampleBit(buffer, k, bpp, 8 * m + 2) + 8 * SampleBit(buffer, k, bpp, 8 * m + 3)
  + 16 * SampleBit(buffer, k, bpp, 8 * m + 4) + 32 * SampleBit(buffer, k, bpp, 8 * m + 5)
  + 64 * SampleBit(buffer, k, bpp, 8 * m + 6) + 128 * SampleBit(buffer, k, bpp, 8 * m + 7)

\* the unsigned value of stream bits [k*bpp, (k+1)*bpp)
StreamSample(buffer, k, bpp) ==
  Word(SampleByte(buffer, k, bpp, 3), SampleByte(buffer, k, bpp, 2),
       SampleByte(buffer, k, bpp, 1), SampleByte(buffer, k, bpp, 0))

SamplesExact ==
  \A i \in 1 .. Len(out.samples) :
    /\ out.samples[i].col = StreamSample(call.image.buffer, i - 1, call.image.bpp)
    /\ i - 1 = (out.samples[i].y * call.image.width) + out.samples[i].x

\* C4: for every depth 1..32 and every buffer the k-th sample, k = y*width+x,
\* is the unsigned value of stream bits [k*bpp, (k+1)*bpp), most significant
\* bit first, also where the sample straddles bytes.
C4_SamplesAreStreamBits ==
  (done /\ call.name = "drawImage") => SamplesExact

\* where C4 does hold: the depths at which bits never exceeds 32 and the
\* mask is computed without overflow
AccumulatorFits ==
  /\ call.image.bpp \notin {27, 29, 30, 31}
  /\ call.image.bpp < build.longBits

SamplesExactWhereAccumulatorFits ==
  (done /\ call.name = "drawImage" /\ AccumulatorFits) => SamplesExact

----------------------------------------------------------------------------
\* Claims about text (checked under SpecFont)

CustomFont == gfx.fontSize = JSGRAPHICS_FONTSIZE_CUSTOM /\ font.set
Drawn == done /\ call.name = "drawString"
Measured == done /\ call.name = "stringWidth"

\* the code of the character a glyph entry is about
CodeOf(entry) == call.str[entry.index + 1]

BelowFirstChar(entry) == CodeOf(entry) < font.firstChar

\* C1 as stated: with a custom font, scalar width or width table, a
\* character with code < firstChar draws no pixel and moves x by 0 in
\* drawString, and adds 0 in stringWidth.
C1_BelowFirstCharIsNothing ==
  ((Drawn \/ Measured) /\ CustomFont) =>
    \A k \in 1 .. Len(out.glyphs) :
      BelowFirstChar(out.glyphs[k]) =>
        /\ out.glyphs[k].width = 0
        /\ Drawn => out.glyphs[k].pixels = <<>>

\* C1 amended: a character with code < firstChar draws no pixel with either
\* kind of width; with a width table drawString moves x by 0 and stringWidth
\* adds 0, with a scalar width w drawString moves x by w and stringWidth
\* adds w.
C1_BelowFirstCharDrawsNothing ==
  ((Drawn \/ Measured) /\ CustomFont) =>
    \A k \in 1 .. Len(out.glyphs) :
      BelowFirstChar(out.glyphs[k]) =>
        /\ out.glyphs[k].width = IF jsvIsString(font.width) THEN 0 ELSE font.width.i
        /\ Drawn => out.glyphs[k].pixels = <<>>

C1_Witness ==
  /\ Drawn /\ CustomFont
  /\ font.width = JsInt(3) /\ font.firstChar = 33
  /\ call.str = <<32, 34>>
  /\ Len(out.glyphs) = 2
  /\ out.glyphs[1].width = 3 /\ out.glyphs[1].pixels = <<>>
  /\ out.glyphs[2].x = call.x + 3 /\ out.glyphs[2].pixels # <<>>

\* the width of glyph n of the font (0 past the end of a width table)
TableWidth(f, n) ==
  IF jsvIsString(f.width)
  THEN (IF n < Len(f.width.s) THEN f.width.s[n + 1] ELSE 0)
  ELSE f.width.i

\* the sum of the widths of the glyphs before glyph n
RECURSIVE WidthSum(_, _)
WidthSum(f, n) == IF n <= 0 THEN 0 ELSE WidthSum(f, n - 1) + TableWidth(f, n - 1)

\* the bit offset of the first bit of glyph n
GlyphStart(f, n) ==
  IF jsvIsString(f.width) THEN f.height * WidthSum(f, n) ELSE f.width.i * f.height * n

\* the pixels of glyph n drawn at (x, y): the set bits of the bitmap from
\* GlyphStart on, column by column
GlyphPixels(f, n, x, y, color) ==
  {<<x + cx, y + cy, color>> :
     <<cx, cy>> \in {c \in (0 .. TableWidth(f, n) - 1) \X (0 .. f.height - 1) :
                       StreamBit(f.bmp, GlyphStart(f, n) + (c[1] * f.height) + c[2]) = 1}}

SeqSet(seq) == {seq[i] : i \in 1 .. Len(seq)}

GlyphAsBitmap(entry) ==
  /\ entry.width = TableWidth(font, entry.ch - font.firstChar)
  /\ SeqSet(entry.pixels) = GlyphPixels(font, entry.ch - font.firstChar, entry.x, entry.y, gfx.fgColor)
  /\ Len(entry.pixels) = Cardinality(SeqSet(entry.pixels))

\* C10: with a custom font and ch >= firstChar (ch as the char the code
\* compares) the glyph starts at bit height * (sum of the widths of the
\* glyphs before ch-firstChar), width*height*(ch-firstChar) for a scalar
\* width, and drawString draws a foreground pixel at (x+cx, y+cy) exactly
\* for the cx in [0,width), cy in [0,height) whose bit start + cx*height + cy,
\* most significant bit of each byte first, is set.
C10_GlyphBits ==
  (Drawn /\ CustomFont) =>
    \A k \in 1 .. Len(out.glyphs) :
      out.glyphs[k].ch >= font.firstChar => GlyphAsBitmap(out.glyphs[k])

C10_Witness ==
  /\ Drawn /\ CustomFont
  /\ font.width = JsString(<<1, 2, 3>>) /\ font.height = 3 /\ font.firstChar = 32
  /\ font.bmp = <<165, 60, 241, 15>>
  /\ call.str = <<34>> /\ call.x = 10
  /\ out.pixels = <<<<10, -3, gfx.fgColor>>, <<10, -2, gfx.fgColor>>, <<11, -4, gfx.fgColor>>,
                    <<11, -3, gfx.fgColor>>, <<12, -3, gfx.fgColor>>, <<12, -2, gfx.fgColor>>>>

\* C6: drawString polls the cancellation predicate once per character; when
\* it is first true at character index i, the characters 0..i have been
\* drawn, each at its place, no character after i is drawn, and drawString
\* returns.
C6_StopsAtInterrupt ==
  Drawn =>
    /\ Len(out.glyphs) = IF call.interruptedAt < Len(call.str)
                         THEN call.interruptedAt + 1 ELSE Len(call.str)
    /\ \A k \in 1 .. Len(out.glyphs) :
         /\ out.glyphs[k].index = k - 1
         /\ out.glyphs[k].x = IF k = 1 THEN call.x
                              ELSE out.glyphs[k - 1].x + out.glyphs[k - 1].width
         /\ (CustomFont /\ out.glyphs[k].ch >= font.firstChar) => GlyphAsBitmap(out.glyphs[k])
    /\ \A p \in SeqSet(out.pixels) : \E k \in 1 .. Len(out.glyphs) : p \in SeqSet(out.glyphs[k].pixels)

C6_Witness ==
  /\ Drawn /\ CustomFont
  /\ call.str = <<33, 33>> /\ call.interruptedAt = 0
  /\ Len(out.glyphs) = 1
  /\ out.pixels # <<>>

----------------------------------------------------------------------------
\* Claims about fillPoly (checked under SpecPoly)

Filled == done /\ call.name = "fillPoly" /\ call.poly.isArray
PolyLen == Len(call.poly.items)
Warned == out.report # "none"

\* C12: given an array of more than 128 values, fillPoly passes exactly 64
\* vertices to the polygon fill, made of the first 128 values in order (each
\* as a short), reports a warning, and still performs the fill.
C12_TruncatesTo64 ==
  (Filled /\ PolyLen > 128) =>
    /\ Warned
    /\ Len(out.fills) = 1
    /\ out.fills[1].points = 64
    /\ out.fills[1].verts = [i \in 1 .. 128 |-> ShortOfVar(call.poly.items[i])]

C12_Witness ==
  /\ Filled /\ PolyLen = 150
  /\ call.poly.items[1] = JsInt(-100)
  /\ Warned
  /\ out.fills[1].points = 64
  /\ out.fills[1].verts[128] = Short(38000)

\* C15: fillPoly warns only when a value was dropped, that is only when the
\* array holds more than 128 values; for n <= 128 values it does not warn and
\* passes floor(n/2) vertices to the polygon fill.
C15_WarnsOnlyWhenDropped ==
  Filled =>
    /\ Warned => PolyLen > 128
    /\ PolyLen <= 128 =>
         /\ ~Warned
         /\ Len(out.fills) = 1
         /\ out.fills[1].points = PolyLen \div 2

\* the part of C15 the code keeps: no warning below 128 values, and
\* floor(n/2) vertices for every n <= 128
WarnsOnlyFrom128 ==
  Filled =>
    /\ Warned <=> PolyLen >= 128
    /\ PolyLen <= 128 => (Len(out.fills) = 1 /\ out.fills[1].points = PolyLen \div 2)

----------------------------------------------------------------------------
\* Claims about the font selection (checked under SpecFontSession)

\* the arguments for which C13 promises an error
InvalidCustom(c) ==
  /\ c.name = "setFontCustom"
  /\ \/ ~jsvIsString(c.bitmap)
     \/ c.firstChar < 0 \/ c.firstChar > 255
     \/ (~jsvIsString(c.width) /\ ~jsvIsInt(c.width))
     \/ c.height < 1 \/ c.height > 255

\* C13: setFontCustom with a bitmap that is no string, firstChar outside
\* [0,255], a width that is neither a string nor an integer, or height
\* outside [1,255] reports an error and changes nothing: the selected font
\* and the four stored custom-font properties stay as they were.
C13_InvalidLeavesUnchanged ==
  [][InvalidCustom(call') => (gfx' = gfx /\ font' = font /\ out'.report # "none")]_vars

C13_Witness ==
  /\ call = [name |-> "setFontCustom", bitmap |-> JsString(<<255, 129>>), firstChar |-> 255,
             width |-> JsInt(2), height |-> 256]
  /\ out.report = "Invalid height"
  /\ gfx.fontSize = JSGRAPHICS_FONTSIZE_CUSTOM
  /\ font = [set |-> TRUE, bmp |-> <<255, 129>>, width |-> JsString(<<1, 2, 3>>),
             height |-> 1, firstChar |-> 0]

\* C16: after any sequence of setFontBitmap, setFontVector and setFontCustom
\* calls the four custom-font properties are stored exactly when the selected
\* font is the custom font, and a selected vector font size is in [1,1023].
C16_FontInvariant ==
  /\ font.set <=> gfx.fontSize = JSGRAPHICS_FONTSIZE_CUSTOM
  /\ font.set => DOMAIN font = {"set", "bmp", "width", "height", "firstChar"}
  /\ gfx.fontSize > 0 => gfx.fontSize \in 1 .. 1023
  /\ gfx.fontSize \in {JSGRAPHICS_FONTSIZE_4X6, JSGRAPHICS_FONTSIZE_CUSTOM} \cup (1 .. 1023)

C16_Witness ==
  /\ InvalidCustom(call)
  /\ jsvIsString(call.bitmap) /\ call.firstChar = 0 /\ call.height = 1
  /\ gfx.fontSize = 1023
  /\ font = NoFont

----------------------------------------------------------------------------
\* Claims about stringWidth and drawString together (checked under SpecFont)

\* what drawString has added to x after the glyphs, starting at x0
Advance(glyphs, x0) ==
  IF glyphs = <<>> THEN 0
  ELSE (glyphs[Len(glyphs)].x + glyphs[Len(glyphs)].width) - x0

\* the vector-font widths that give each logged character its logged width
\* (with another font the widths are not used)
SameVectorWidths ==
  {vw \in VectorWidths(gfx, CharsOf(call.str, build.charSigned)) :
     gfx.fontSize > 0 => \A k \in 1 .. Len(out.glyphs) : vw[out.glyphs[k].ch] = out.glyphs[k].width}

Uncancelled == Drawn /\ call.interruptedAt >= Len(call.str)

\* C11: stringWidth returns the sum of the advances of the characters, 4 for
\* each with the 4x6 font and w for each with a custom font of scalar width
\* w, and that sum is what drawString adds to x for the same string when it
\* is not cancelled (the vector font giving a character the same width in
\* both).
C11_WidthIsAdvance ==
  /\ Measured =>
       /\ gfx.fontSize = JSGRAPHICS_FONTSIZE_4X6 => out.ret = 4 * Len(call.str)
       /\ (CustomFont /\ jsvIsInt(font.width)) => out.ret = font.width.i * Len(call.str)
       /\ SameVectorWidths # {}
       /\ \A vw \in SameVectorWidths :
            out.ret = Advance(DrawStringLoop(gfx, font, call.str, 1, 10, -4, Len(call.str), vw,
                                             build.charSigned), 10)
  /\ Uncancelled =>
       /\ Len(out.glyphs) = Len(call.str)
       /\ SameVectorWidths # {}
       /\ \A vw \in SameVectorWidths :
            Advance(out.glyphs, call.x)
              = SumWidths(StringWidthLoop(gfx, font, call.str, 1, vw, build.charSigned))

C11_Witness ==
  /\ Measured /\ CustomFont
  /\ font.width = JsInt(3) /\ font.firstChar = 33
  /\ call.str = <<32, 34>>
  /\ out.ret = 6

----------------------------------------------------------------------------
\* Claims about the loop of drawImage (checked under SpecImage)

DrawnValid == done /\ call.name = "drawImage" /\ ValidImage(call.image)

\* ceil(width*height*bpp/8)
ImageBytes(image) == ((image.width * image.height * image.bpp) + 7) \div 8

\* the place of a written pixel in the image, counted row by row
PixelIndex(p) == ((p[2] - call.yPos) * call.image.width) + (p[1] - call.xPos)

\* C14: for every valid image and every buffer length the loop ends, every
\* pixel written is at (xPos+x, yPos+y) with 0 <= x < width, 0 <= y < height,
\* the positions are visited row by row, each written at most once, and no
\* more than ceil(width*height*bpp/8) bytes of the buffer are read.
C14_LoopStaysInImage ==
  DrawnValid =>
    /\ Len(out.samples) <= call.image.width * call.image.height
    /\ \A i \in 1 .. Len(out.samples) :
         /\ out.samples[i].x \in 0 .. call.image.width - 1
         /\ out.samples[i].y \in 0 .. call.image.height - 1
         /\ i - 1 = (out.samples[i].y * call.image.width) + out.samples[i].x
    /\ \A j \in 1 .. Len(out.pixels) :
         /\ out.pixels[j][1] - call.xPos \in 0 .. call.image.width - 1
         /\ out.pixels[j][2] - call.yPos \in 0 .. call.image.height - 1
         /\ j > 1 => PixelIndex(out.pixels[j - 1]) < PixelIndex(out.pixels[j])
    /\ out.read <= ImageBytes(call.image)
    /\ out.read <= Len(call.image.buffer)

C14_Witness ==
  /\ DrawnValid
  /\ call.image.width = 2 /\ call.image.height = 2 /\ call.image.bpp = 1
  /\ call.image.transparent = JsInt(1)
  /\ call.image.buffer = <<128, 64, 255>>
  /\ call.xPos = 5 /\ call.yPos = -3
  /\ out.read = 1
  /\ Len(out.samples) = 4
  /\ out.pixels = <<<<6, -3, gfx.bgColor>>, <<5, -2, gfx.bgColor>>, <<6, -2, gfx.bgColor>>>>

=============================================================================
